---- MODULE Spec2Model ----
(***************************************************************************)
(* rpi-radio-alarm (src/radio.py): the configuration store, the radio      *)
(* (one external mplayer process), the alarm scheduler thread and the HTTP *)
(* handlers that run concurrently with it.                                 *)
(*                                                                         *)
(* Python objects are references: PersistentConfig.get('alarms') returns   *)
(* the list object of the document itself, so a handler's local "alarms"   *)
(* and the scheduler's iterator alias the stored list.  A thread switch is *)
(* possible between any two steps below; a single list operation (append,  *)
(* del, one iterator step) is one step, as in CPython.                     *)
(***************************************************************************)
EXTENDS Integers, Sequences, FiniteSets, TLC

\* ------------------------------------------------------------------ bounds
\* POST 'new' requests accepted over one run
MaxNew == 2
\* running mplayer processes no longer referenced by Radio.process
MaxOrphans == 1

\* ------------------------------------------------------------- constants
\* "Play for 10 minutes" (check_time)
WindowMinutes == 10
MinutesPerHour == 60

\* HTTP handler threads modelled (waitress runs several)
Handlers == {1, 2}

\* ---------------------------------------------------------------- alarms
\* PersistentConfig.DEFAULT_CONFIG["alarms"]
DEFAULT_ALARMS ==
    << [name |-> "work", days |-> {1}, on |-> FALSE, hour |-> 5, min |-> 55],
       [name |-> "normal", days |-> {2, 3, 4, 5, 6}, on |-> FALSE, hour |-> 7, min |-> 55] >>

\* PersistentConfig.DEFAULT_CONFIG["radio"]["playing"]
DEFAULT_PLAYING == FALSE

\* bodies of POST 'new' requests: an alarm in the morning, an alarm whose
\* ten minutes would end after midnight, and one with an empty days list
AlarmTest == [name |-> "test", days |-> {2}, on |-> TRUE, hour |-> 8, min |-> 0]
AlarmLate == [name |-> "late", days |-> {2}, on |-> TRUE, hour |-> 23, min |-> 55]
AlarmNoDays == [name |-> "nodays", days |-> {}, on |-> TRUE, hour |-> 8, min |-> 0]
AlarmNoHour == [name |-> "nohour", days |-> {2}, on |-> TRUE, min |-> 0]
NewAlarms == {AlarmTest, AlarmLate, AlarmNoDays, AlarmNoHour}

\* ------------------------------------------------------------------ time
\* datetime.datetime.now(): weekday (0 = Monday), hour, minute, second
Instant(wd, h, m, s) == [wd |-> wd, h |-> h, m |-> m, s |-> s]

\* the instants the clock passes through, all on a Wednesday: before 07:55,
\* at 07:55, between 08:05 and 08:15, and after 08:15
Instants ==
    { Instant(2, 7, 54, 0), Instant(2, 7, 55, 0), Instant(2, 8, 6, 0),
      Instant(2, 8, 15, 30) }

\* seconds since midnight: the order of datetime.time values
SecondsOfDay(h, m, s) == (h * MinutesPerHour + m) * 60 + s

\* t is strictly later than u within the week
Later(t, u) ==
    \/ t.wd > u.wd
    \/ t.wd = u.wd /\ SecondsOfDay(t.h, t.m, t.s) > SecondsOfDay(u.h, u.m, u.s)

\* datetime.time(hour, minute) raises ValueError outside these ranges
ValidTime(hour, minutes) == hour \in 0..23 /\ minutes \in 0..59

\* check_time: the end of the window
EndHour(hour, minutes) ==
    IF minutes + WindowMinutes < MinutesPerHour THEN hour ELSE hour + 1

EndMin(hour, minutes) ==
    IF minutes + WindowMinutes < MinutesPerHour
    THEN minutes + WindowMinutes
    ELSE MinutesPerHour - minutes + WindowMinutes

\* check_time raises (datetime.time of the start or of the end)
CheckTimeRaises(hour, minutes) ==
    \/ ~ValidTime(hour, minutes)
    \/ ~ValidTime(EndHour(hour, minutes), EndMin(hour, minutes))

\* a window that leaves its last instant out
CheckTime_open(hour, minutes, days, t) ==
    /\ SecondsOfDay(hour, minutes, 0) <= SecondsOfDay(t.h, t.m, t.s)
    /\ SecondsOfDay(t.h, t.m, t.s)
          < SecondsOfDay(EndHour(hour, minutes), EndMin(hour, minutes), 0)
    /\ t.wd \in days

\* check_time's result when it does not raise
CheckTime(hour, minutes, days, t) ==
    /\ SecondsOfDay(hour, minutes, 0) <= SecondsOfDay(t.h, t.m, t.s)
    /\ SecondsOfDay(t.h, t.m, t.s)
          <= SecondsOfDay(EndHour(hour, minutes), EndMin(hour, minutes), 0)
    /\ t.wd \in days

\* ----------------------------------------------------------------- state
VARIABLES
    alarms,                  \* PersistentConfig._config["alarms"], the list object
    playing,                 \* PersistentConfig._config["radio"]["playing"]
    disk,                    \* the document last written to radio-config.json
    process,                 \* Radio.process: "None", "running" or "exited"
    orphans,                 \* running mplayer processes Radio.process no longer names
    last_should_be_playing,  \* AlarmResource.last_should_be_playing
    thread_should_exit,      \* AlarmResource.thread_should_exit
    sched,                   \* the scheduler thread: its position in run() and its locals
    call,                    \* per thread: its position inside a Radio method
    hs,                      \* per handler thread: its position in a request and its locals
    now,                     \* the wall clock
    g_edge,                  \* history: the last two computed values and what the tick invoked
    g_posted,                \* history: POST 'new' requests answered 201, per alarm
    g_fresh,                 \* history: the newest appended alarm whose window is open
    g_cmd,                   \* history: the last playback command, of a request or of a tick
    rt,                      \* history: the last set-then-get on the store
    boot,                    \* main: the file found at startup and how construction went
    ct,                      \* one call of check_time: its arguments, the time, the result
    g_off                    \* history: the playing alarm was disabled, and the ticks since

cfgVars == <<alarms, playing, disk>>
radioVars == <<process, orphans>>
schedVars == <<sched, last_should_be_playing, thread_should_exit>>
vars == <<alarms, playing, disk, process, orphans, last_should_be_playing,
          thread_should_exit, sched, call, hs, now, g_edge, g_posted, g_fresh,
          g_cmd, rt, boot, ct, g_off>>

\* the scheduler thread's id beside the handler threads
SchedThread == 0
Threads == Handlers \cup {SchedThread}

\* ---------------------------------------------------------- config store
\* JSON values of the document, tagged by their Python type
VBool(b) == [kind |-> "bool", v |-> b]
VList(l) == [kind |-> "list", v |-> l]
VDict(d) == [kind |-> "dict", v |-> d]

\* PersistentConfig._config as one value
Document ==
    VDict([alarms |-> VList(alarms),
           radio |-> VDict([playing |-> VBool(playing)])])

NoExc == "none"

\* node[seg] for a str seg: dict lookup, KeyError on an absent key; a list
\* or a scalar indexed by a str raises TypeError
PyGetItem(node, seg) ==
    IF node.kind = "dict"
    THEN IF seg \in DOMAIN node.v
         THEN [exc |-> NoExc, val |-> node.v[seg]]
         ELSE [exc |-> "KeyError", val |-> node]
    ELSE [exc |-> "TypeError", val |-> node]

\* node[seg] = value for a str seg
PySetItem(node, seg, value) ==
    IF node.kind = "dict"
    THEN [exc |-> NoExc,
          val |-> VDict([k \in DOMAIN node.v \cup {seg} |->
                            IF k = seg THEN value ELSE node.v[k]])]
    ELSE [exc |-> "TypeError", val |-> node]

\* PersistentConfig.get after key.split("/"): every part is a str
RECURSIVE PyTraverse(_, _)
PyTraverse(node, parts) ==
    IF parts = <<>>
    THEN [exc |-> NoExc, val |-> node]
    ELSE LET r == PyGetItem(node, Head(parts))
         IN IF r.exc # NoExc THEN r ELSE PyTraverse(r.val, Tail(parts))

ConfigGet(parts) == PyTraverse(Document, parts)

\* PersistentConfig.set: walk to the parent of the last part, assign there
RECURSIVE PySetPath(_, _, _)
PySetPath(node, parts, value) ==
    IF Len(parts) = 1
    THEN PySetItem(node, parts[1], value)
    ELSE LET r == PyGetItem(node, Head(parts))
         IN IF r.exc # NoExc
            THEN r
            ELSE LET s == PySetPath(r.val, Tail(parts), value)
                 IN IF s.exc # NoExc
                    THEN s
                    ELSE [exc |-> NoExc,
                          val |-> VDict([node.v EXCEPT ![Head(parts)] = s.val])]

\* PersistentConfig.set as a step: the assignment, then save(); an exception
\* leaves memory and file as they were
ConfigSet(parts, value) ==
    LET r == PySetPath(Document, parts, value)
    IN IF r.exc = NoExc
       THEN /\ alarms' = r.val.v.alarms.v
            /\ playing' = r.val.v.radio.v.playing.v
            /\ disk' = [alarms |-> alarms', playing |-> playing']
       ELSE UNCHANGED cfgVars

\* a local variable bound to a list: the stored list object itself (ref),
\* or a list of its own
ListCopy(l) == [ref |-> FALSE, val |-> l]
ListObject == [ref |-> TRUE, val |-> <<>>]

\* a get that would hand out a copy of the list
ConfigGetAlarms_copy == ListCopy(alarms)

\* self.config.get('alarms'): the list object of the document, not a copy
ConfigGetAlarms == ListObject

\* the elements a list variable sees now
Deref(l) == IF l.ref THEN alarms ELSE l.val

\* Python list indexing: 0-based, negative indices count from the end
PyIndexOk(l, i) == -Len(l) <= i /\ i < Len(l)
PyPos(l, i) == IF i < 0 THEN i + Len(l) + 1 ELSE i + 1
PyItem(l, i) == l[PyPos(l, i)]

\* a del that would take the index as 1-based
PyDel_shifted(l, i) == SubSeq(l, 1, PyPos(l, i)) \o SubSeq(l, PyPos(l, i) + 2, Len(l))

\* del l[i]
PyDel(l, i) == SubSeq(l, 1, PyPos(l, i) - 1) \o SubSeq(l, PyPos(l, i) + 1, Len(l))

\* ----------------------------------------------------------------- radio
\* a test on the handle alone, without the poll
IsPlaying_handle == process # "None"

\* Radio.is_playing: process is not None and process.poll() is None
IsPlaying == process = "running"

\* how many mplayer processes started by the Radio are running
LiveProcesses == orphans + (IF process = "running" THEN 1 ELSE 0)

\* history of the newest appended alarm whose window is open: appended
\* ("armed"), a tick begun after that ("ticking"), that tick finished ("due");
\* "void" once the radio was stopped or its process exited in between
NoFresh == [st |-> "none", a |-> AlarmTest]
FreshVoid == IF g_fresh.st = "none" THEN g_fresh ELSE [g_fresh EXCEPT !.st = "void"]
FreshTickStart ==
    IF g_fresh.st = "armed" THEN [g_fresh EXCEPT !.st = "ticking"]
    ELSE IF g_fresh.st = "due" THEN NoFresh
    ELSE g_fresh
FreshTickEnd ==
    IF g_fresh.st = "ticking" THEN [g_fresh EXCEPT !.st = "due"] ELSE g_fresh

\* some enabled alarm of list l has its window open at time t
EnabledMatch(l, t) ==
    \E k \in 1..Len(l) :
        /\ l[k].on
        /\ ~CheckTimeRaises(l[k].hour, l[k].min)
        /\ CheckTime(l[k].hour, l[k].min, l[k].days, t)

\* history of the disabling of the playing alarm: the scheduler had started the
\* radio and the last enabled alarm with an open window was turned off or
\* deleted ("armed"), a tick begun after that ("ticking"), what the scheduler
\* then invoked ("ended", with act), a start_playing after its stop_playing
\* ("restarted"); any other change of the alarms or of the clock clears it
NoOff == [st |-> "none", act |-> "none"]
OffAfterChange(l) ==
    IF /\ last_should_be_playing
       /\ sched.pc # "called"
       /\ EnabledMatch(alarms, now)
       /\ ~EnabledMatch(l, now)
    THEN [st |-> "armed", act |-> "none"]
    ELSE NoOff
OffTickStart == IF g_off.st = "armed" THEN [g_off EXCEPT !.st = "ticking"] ELSE g_off
OffCrash ==
    IF g_off.st \in {"armed", "ticking"} THEN [st |-> "ended", act |-> "crash"] ELSE g_off
OffEdge(b) ==
    IF g_off.st = "ticking" \/ (g_off.st = "armed" /\ b = "stop")
    THEN [st |-> "ended", act |-> b]
    ELSE IF g_off.st = "ended" /\ g_off.act = "stop" /\ b = "start"
    THEN [st |-> "restarted", act |-> b]
    ELSE g_off

\* a start_playing without its test
RadioStartCheck_always(t) ==
    /\ call[t] = "start_playing"
    /\ call' = [call EXCEPT ![t] = "popen"]
    /\ UNCHANGED <<cfgVars, radioVars, schedVars, hs, now, g_edge, g_posted, g_fresh,
                   g_cmd, rt, boot, ct, g_off>>

\* Radio.start_playing, line 75: if not self.is_playing()
RadioStartCheck(t) ==
    /\ call[t] = "start_playing"
    /\ call' = [call EXCEPT ![t] = IF IsPlaying THEN "return" ELSE "popen"]
    /\ UNCHANGED <<cfgVars, radioVars, schedVars, hs, now, g_edge, g_posted, g_fresh,
                   g_cmd, rt, boot, ct, g_off>>

\* Radio.start_playing, line 76: self.process = subprocess.Popen(...); the
\* process self.process named before keeps running if it was running
RadioPopen(t) ==
    /\ call[t] = "popen"
    /\ process = "running" => orphans < MaxOrphans
    /\ orphans' = IF process = "running" THEN orphans + 1 ELSE orphans
    /\ process' = "running"
    /\ call' = [call EXCEPT ![t] = "return"]
    /\ UNCHANGED <<cfgVars, schedVars, hs, now, g_edge, g_posted, g_fresh, g_cmd, rt, boot, ct, g_off>>

\* Radio.stop_playing, line 80: if self.is_playing()
RadioStopCheck(t) ==
    /\ call[t] = "stop_playing"
    /\ call' = [call EXCEPT ![t] = IF IsPlaying THEN "terminate" ELSE "return"]
    /\ UNCHANGED <<cfgVars, radioVars, schedVars, hs, now, g_edge, g_posted, g_fresh,
                   g_cmd, rt, boot, ct, g_off>>

\* Radio.stop_playing, line 81: self.process.terminate(), on whatever
\* self.process names now
RadioTerminate(t) ==
    /\ call[t] = "terminate"
    /\ process' = IF process = "running" THEN "exited" ELSE process
    /\ call' = [call EXCEPT ![t] = "return"]
    /\ g_fresh' = FreshVoid
    /\ UNCHANGED <<cfgVars, orphans, schedVars, hs, now, g_edge, g_posted, g_cmd, rt, boot, ct, g_off>>

\* mplayer ends by itself (the stream ends, the network fails)
ProcExit ==
    /\ \/ /\ process = "running"
          /\ process' = "exited"
          /\ UNCHANGED orphans
       \/ /\ orphans > 0
          /\ orphans' = orphans - 1
          /\ UNCHANGED process
    /\ g_fresh' = FreshVoid
    /\ UNCHANGED <<cfgVars, schedVars, call, hs, now, g_edge, g_posted, g_cmd, rt, boot, ct, g_off>>

\* ------------------------------------------------------------- scheduler
SchedIdle == [pc |-> "loop", it |-> ListObject, i |-> 0, rsbp |-> FALSE, seen |-> <<>>]

\* a loop that never tests thread_should_exit
SchedLoop_forever ==
    /\ sched.pc = "loop"
    /\ sched' = [SchedIdle EXCEPT !.pc = "scan", !.it = ConfigGetAlarms]
    /\ g_fresh' = FreshTickStart
    /\ g_off' = OffTickStart
    /\ UNCHANGED <<cfgVars, radioVars, last_should_be_playing, thread_should_exit,
                   call, hs, now, g_edge, g_posted, g_cmd, rt, boot, ct>>

\* run, lines 141-143: the loop test, then the iterator over get('alarms')
SchedLoop ==
    /\ sched.pc = "loop"
    /\ IF thread_should_exit
       THEN /\ sched' = [sched EXCEPT !.pc = "exited"]
            /\ g_off' = NoOff
            /\ UNCHANGED g_fresh
       ELSE /\ sched' = [SchedIdle EXCEPT !.pc = "scan", !.it = ConfigGetAlarms]
            /\ g_fresh' = FreshTickStart
            /\ g_off' = OffTickStart
    /\ UNCHANGED <<cfgVars, radioVars, last_should_be_playing, thread_should_exit,
                   call, hs, now, g_edge, g_posted, g_cmd, rt, boot, ct>>

\* run, lines 143-149: one step of the for loop; an exception of check_time
\* is caught nowhere and ends the thread
SchedScan ==
    /\ sched.pc = "scan"
    /\ LET l == Deref(sched.it)
       IN IF sched.i >= Len(l)
          THEN sched' = [sched EXCEPT !.pc = "edge"]
          ELSE LET a == l[sched.i + 1]
                   next == [sched EXCEPT !.i = @ + 1, !.seen = Append(@, a)]
               IN IF ~a.on
                  THEN sched' = next
                  ELSE IF CheckTimeRaises(a.hour, a.min)
                  THEN sched' = [SchedIdle EXCEPT !.pc = "crashed"]
                  ELSE IF CheckTime(a.hour, a.min, a.days, now)
                  THEN sched' = [next EXCEPT !.rsbp = TRUE, !.pc = "edge"]
                  ELSE sched' = next
    /\ g_off' = IF sched'.pc = "crashed" THEN OffCrash ELSE g_off
    /\ UNCHANGED <<cfgVars, radioVars, last_should_be_playing, thread_should_exit,
                   call, hs, now, g_edge, g_posted, g_fresh, g_cmd, rt, boot, ct>>

\* a test on the value alone, without the edge
SchedBranch_level(rsbp, last) == IF rsbp THEN "start" ELSE IF last THEN "stop" ELSE "none"

\* run, lines 150 and 154: which branch the tick takes
SchedBranch(rsbp, last) ==
    IF rsbp /\ ~last THEN "start"
    ELSE IF ~rsbp /\ last THEN "stop"
    ELSE "none"

\* run, lines 150-157: the edge test and the call into the Radio
SchedEdge ==
    /\ sched.pc = "edge"
    /\ LET b == SchedBranch(sched.rsbp, last_should_be_playing)
       IN /\ g_edge' = [prev |-> g_edge.cur, cur |-> sched.rsbp, act |-> b]
          /\ g_off' = OffEdge(b)
          /\ IF b = "start"
             THEN /\ call' = [call EXCEPT ![SchedThread] = "start_playing"]
                  /\ sched' = [sched EXCEPT !.pc = "called"]
                  /\ g_cmd' = "start"
                  /\ UNCHANGED g_fresh
             ELSE IF b = "stop"
             THEN /\ call' = [call EXCEPT ![SchedThread] = "stop_playing"]
                  /\ sched' = [sched EXCEPT !.pc = "called"]
                  /\ g_cmd' = "stop"
                  /\ UNCHANGED g_fresh
             ELSE /\ sched' = SchedIdle
                  /\ g_fresh' = FreshTickEnd
                  /\ UNCHANGED <<call, g_cmd>>
    /\ UNCHANGED <<cfgVars, radioVars, last_should_be_playing, thread_should_exit,
                   hs, now, g_posted, rt, boot, ct>>

\* run, lines 153 and 157-158: the Radio method returned; remember the value, sleep
SchedAssign ==
    /\ sched.pc = "called"
    /\ call[SchedThread] = "return"
    /\ last_should_be_playing' = sched.rsbp
    /\ call' = [call EXCEPT ![SchedThread] = "none"]
    /\ sched' = SchedIdle
    /\ g_fresh' = FreshTickEnd
    /\ UNCHANGED <<cfgVars, radioVars, thread_should_exit, hs, now, g_edge, g_posted,
                   g_cmd, rt, boot, ct, g_off>>

\* AlarmResource.__del__, line 137
Shutdown ==
    /\ ~thread_should_exit
    /\ thread_should_exit' = TRUE
    /\ UNCHANGED <<cfgVars, radioVars, sched, last_should_be_playing, call, hs, now,
                   g_edge, g_posted, g_fresh, g_cmd, rt, boot, ct, g_off>>

\* time passes
ClockAdvance ==
    /\ \E t \in Instants : Later(t, now) /\ now' = t
    /\ g_off' = NoOff
    /\ UNCHANGED <<cfgVars, radioVars, schedVars, call, hs, g_edge, g_posted, g_fresh,
                   g_cmd, rt, boot, ct>>

\* -------------------------------------------------------------- handlers
NoResp == [code |-> 0, body |-> "none"]
Resp(code, body) == [code |-> code, body |-> body]
IdleHandler ==
    [pc |-> "idle", op |-> "none", a |-> AlarmTest, idx |-> 0, loc |-> ListObject,
     resp |-> NoResp]

\* the response is sent and the handler thread is free again
ApiRespond(h) ==
    /\ hs[h].pc = "respond"
    /\ hs' = [hs EXCEPT ![h] = IdleHandler]
    /\ UNCHANGED <<cfgVars, radioVars, schedVars, call, now, g_edge, g_posted, g_fresh,
                   g_cmd, rt, boot, ct, g_off>>

\* RadioResource.on_get, action "start", lines 99-104
ApiRadioStart(h) ==
    /\ hs[h].pc = "idle"
    /\ IF IsPlaying
       THEN /\ hs' = [hs EXCEPT ![h].pc = "start_set", ![h].op = "start",
                                ![h].resp = Resp(200, "already started")]
            /\ UNCHANGED call
       ELSE /\ hs' = [hs EXCEPT ![h].pc = "start_set", ![h].op = "start",
                                ![h].resp = Resp(200, "ok let's start this")]
            /\ call' = [call EXCEPT ![h] = "start_playing"]
    /\ g_cmd' = "start"
    /\ UNCHANGED <<cfgVars, radioVars, schedVars, now, g_edge, g_posted, g_fresh, rt, boot, ct, g_off>>

\* RadioResource.on_get, action "start", line 105
ApiRadioStartSet(h) ==
    /\ hs[h].pc = "start_set"
    /\ call[h] \in {"none", "return"}
    /\ ConfigSet(<<"radio", "playing">>, VBool(TRUE))
    /\ call' = [call EXCEPT ![h] = "none"]
    /\ hs' = [hs EXCEPT ![h].pc = "respond"]
    /\ UNCHANGED <<radioVars, schedVars, now, g_edge, g_posted, g_fresh, g_cmd, rt, boot, ct, g_off>>

\* RadioResource.on_get, action "stop", lines 106-111
ApiRadioStop(h) ==
    /\ hs[h].pc = "idle"
    /\ IF IsPlaying
       THEN /\ hs' = [hs EXCEPT ![h].pc = "stop_set", ![h].op = "stop",
                                ![h].resp = Resp(200, "ok let's stop this")]
            /\ call' = [call EXCEPT ![h] = "stop_playing"]
       ELSE /\ hs' = [hs EXCEPT ![h].pc = "stop_set", ![h].op = "stop",
                                ![h].resp = Resp(200, "already stopped")]
            /\ UNCHANGED call
    /\ g_cmd' = "stop"
    /\ UNCHANGED <<cfgVars, radioVars, schedVars, now, g_edge, g_posted, g_fresh, rt, boot, ct, g_off>>

\* RadioResource.on_get, action "stop", line 112
ApiRadioStopSet(h) ==
    /\ hs[h].pc = "stop_set"
    /\ call[h] \in {"none", "return"}
    /\ ConfigSet(<<"radio", "playing">>, VBool(FALSE))
    /\ call' = [call EXCEPT ![h] = "none"]
    /\ hs' = [hs EXCEPT ![h].pc = "respond"]
    /\ UNCHANGED <<radioVars, schedVars, now, g_edge, g_posted, g_fresh, g_cmd, rt, boot, ct, g_off>>

\* RadioResource.on_get, action "status", lines 113-117
ApiRadioStatus(h) ==
    /\ hs[h].pc = "idle"
    /\ hs' = [hs EXCEPT ![h].pc = "respond", ![h].op = "status",
                        ![h].resp = Resp(200, IF IsPlaying THEN "started" ELSE "stopped")]
    /\ UNCHANGED <<cfgVars, radioVars, schedVars, call, now, g_edge, g_posted, g_fresh,
                   g_cmd, rt, boot, ct, g_off>>

\* POST 'new' requests answered 201 so far, and those under way
RECURSIVE SumPosted(_)
SumPosted(S) ==
    IF S = {} THEN 0
    ELSE LET a == CHOOSE x \in S : TRUE IN g_posted[a] + SumPosted(S \ {a})
NewUnderWay == Cardinality({h \in Handlers : hs[h].pc \in {"new_append", "new_set"}})

\* on_post, lines 221-222: the keys the validation reads, in its order; a
\* key the body lacks is a KeyError
NewAlarmMissing(a) ==
    \/ {"name", "on", "days"} \ DOMAIN a # {}
    \/ Cardinality(a.days) >= 1 /\ {"hour", "min"} \ DOMAIN a # {}

\* AlarmResource.on_post, action "new", lines 218-223: the list, the body, the
\* validation; raise falcon.HTTP_400 raises a str, a TypeError that no
\* handler catches, and neither is the KeyError
ApiAlarmNew(h, a) ==
    /\ hs[h].pc = "idle"
    /\ SumPosted(NewAlarms) + NewUnderWay < MaxNew
    /\ IF NewAlarmMissing(a)
       THEN hs' = [hs EXCEPT ![h].pc = "respond", ![h].op = "new", ![h].a = a,
                             ![h].resp = Resp(500, "KeyError")]
       ELSE IF Cardinality(a.days) < 1
       THEN hs' = [hs EXCEPT ![h].pc = "respond", ![h].op = "new", ![h].a = a,
                             ![h].resp = Resp(500, "TypeError")]
       ELSE hs' = [hs EXCEPT ![h].pc = "new_append", ![h].op = "new", ![h].a = a,
                             ![h].loc = ConfigGetAlarms]
    /\ UNCHANGED <<cfgVars, radioVars, schedVars, call, now, g_edge, g_posted, g_fresh,
                   g_cmd, rt, boot, ct, g_off>>

\* on_post, line 225: alarms.append(new_alarm), on the list the local names
ApiAlarmNewAppend(h) ==
    /\ hs[h].pc = "new_append"
    /\ IF hs[h].loc.ref
       THEN /\ alarms' = Append(alarms, hs[h].a)
            /\ hs' = [hs EXCEPT ![h].pc = "new_set"]
       ELSE /\ hs' = [hs EXCEPT ![h].pc = "new_set",
                                ![h].loc = ListCopy(Append(hs[h].loc.val, hs[h].a))]
            /\ UNCHANGED alarms
    /\ g_fresh' = IF /\ hs[h].a.on
                     /\ ~CheckTimeRaises(hs[h].a.hour, hs[h].a.min)
                     /\ CheckTime(hs[h].a.hour, hs[h].a.min, hs[h].a.days, now)
                  THEN [st |-> "armed", a |-> hs[h].a]
                  ELSE g_fresh
    /\ g_off' = IF hs[h].loc.ref THEN NoOff ELSE g_off
    /\ UNCHANGED <<playing, disk, radioVars, schedVars, call, now, g_edge, g_posted,
                   g_cmd, rt, boot, ct>>

\* on_post, lines 226-228: self.config.set('alarms', alarms), status 201
ApiAlarmNewSet(h) ==
    /\ hs[h].pc = "new_set"
    /\ ConfigSet(<<"alarms">>, VList(Deref(hs[h].loc)))
    /\ g_posted' = [g_posted EXCEPT ![hs[h].a] = @ + 1]
    /\ hs' = [hs EXCEPT ![h].pc = "respond", ![h].resp = Resp(201, "alarms")]
    /\ UNCHANGED <<radioVars, schedVars, call, now, g_edge, g_fresh, g_cmd, rt, boot, ct, g_off>>

\* AlarmResource.on_get, lines 184-190, for the path /alarm/<i>: "-1" is not
\* numeric and falls to the 404 of line 188; alarms[int(action)] past the end
\* is an IndexError that no handler catches
ApiAlarmGet(h, i) ==
    /\ hs[h].pc = "idle"
    /\ hs' = [hs EXCEPT ![h].pc = "respond", ![h].op = "get", ![h].idx = i,
                        ![h].resp = IF i < 0 THEN Resp(404, "Not Found")
                                    ELSE IF i < Len(alarms) THEN Resp(200, "alarm")
                                    ELSE Resp(500, "IndexError")]
    /\ UNCHANGED <<cfgVars, radioVars, schedVars, call, now, g_edge, g_posted, g_fresh,
                   g_cmd, rt, boot, ct, g_off>>

\* AlarmResource.on_delete, lines 237-239: the body and the list
ApiAlarmDelete(h, i) ==
    /\ hs[h].pc = "idle"
    /\ hs' = [hs EXCEPT ![h].pc = "del_do", ![h].op = "delete", ![h].idx = i,
                        ![h].loc = ConfigGetAlarms]
    /\ UNCHANGED <<cfgVars, radioVars, schedVars, call, now, g_edge, g_posted, g_fresh,
                   g_cmd, rt, boot, ct, g_off>>

\* on_delete, line 242: del alarms[i]; on an IndexError the except clause
\* reads ex.message, an AttributeError that no handler catches
ApiAlarmDeleteDo(h) ==
    /\ hs[h].pc = "del_do"
    /\ IF PyIndexOk(Deref(hs[h].loc), hs[h].idx)
       THEN IF hs[h].loc.ref
            THEN /\ alarms' = PyDel(alarms, hs[h].idx)
                 /\ hs' = [hs EXCEPT ![h].pc = "del_set"]
                 /\ g_off' = OffAfterChange(alarms')
            ELSE /\ hs' = [hs EXCEPT ![h].pc = "del_set",
                                     ![h].loc = ListCopy(PyDel(hs[h].loc.val, hs[h].idx))]
                 /\ UNCHANGED <<alarms, g_off>>
       ELSE /\ hs' = [hs EXCEPT ![h].pc = "respond",
                                ![h].resp = Resp(500, "AttributeError")]
            /\ UNCHANGED <<alarms, g_off>>
    /\ UNCHANGED <<playing, disk, radioVars, schedVars, call, now, g_edge, g_posted,
                   g_fresh, g_cmd, rt, boot, ct>>

\* on_delete, lines 243-249: self.config.set('alarms', alarms), status 202
ApiAlarmDeleteSet(h) ==
    /\ hs[h].pc = "del_set"
    /\ ConfigSet(<<"alarms">>, VList(Deref(hs[h].loc)))
    /\ hs' = [hs EXCEPT ![h].pc = "respond", ![h].resp = Resp(202, "alarms")]
    /\ UNCHANGED <<radioVars, schedVars, call, now, g_edge, g_posted, g_fresh, g_cmd, rt, boot, ct, g_off>>

\* on_post, actions "turnon" (v = TRUE) and "turnoff" (v = FALSE), lines
\* 198-216 and 234: alarms[i]['on'] = v on the stored alarm, and no set()
ApiAlarmTurn(h, i, v) ==
    /\ hs[h].pc = "idle"
    /\ IF PyIndexOk(alarms, i)
       THEN /\ alarms' = [alarms EXCEPT ![PyPos(alarms, i)].on = v]
            /\ hs' = [hs EXCEPT ![h].pc = "respond", ![h].op = "turn", ![h].idx = i,
                                ![h].resp = Resp(200, "alarms")]
            /\ g_off' = OffAfterChange(alarms')
       ELSE /\ hs' = [hs EXCEPT ![h].pc = "respond", ![h].op = "turn", ![h].idx = i,
                                ![h].resp = Resp(500, "AttributeError")]
            /\ UNCHANGED <<alarms, g_off>>
    /\ UNCHANGED <<playing, disk, radioVars, schedVars, call, now, g_edge, g_posted,
                   g_fresh, g_cmd, rt, boot, ct>>

\* ------------------------------------------------- the store on its own
NoRt == [op |-> "none", parts |-> <<>>, value |-> VBool(FALSE), exc |-> NoExc,
         got |-> VBool(FALSE)]

\* a caller's config.set(key, value)
StoreSet(parts, value) ==
    /\ rt.op # "set"
    /\ ConfigSet(parts, value)
    /\ rt' = [op |-> "set", parts |-> parts, value |-> value,
              exc |-> PySetPath(Document, parts, value).exc, got |-> VBool(FALSE)]
    /\ UNCHANGED <<radioVars, schedVars, call, hs, now, g_edge, g_posted, g_fresh, g_cmd,
                   boot, ct, g_off>>

\* the same caller's config.get(key) right after it
StoreGet ==
    /\ rt.op = "set"
    /\ rt' = [rt EXCEPT !.op = "get", !.exc = ConfigGet(rt.parts).exc,
                        !.got = ConfigGet(rt.parts).val]
    /\ UNCHANGED <<cfgVars, radioVars, schedVars, call, hs, now, g_edge, g_posted,
                   g_fresh, g_cmd, boot, ct, g_off>>

\* lists a caller stores under 'alarms'
StoreLists ==
    { <<>>, <<AlarmTest>>, <<AlarmLate, AlarmTest>>, DEFAULT_ALARMS,
      Append(DEFAULT_ALARMS, AlarmTest) }

\* ------------------------------------------------- the Radio on its own
\* a caller's radio.start_playing() or radio.stop_playing()
RadioCall(t, m) ==
    /\ call[t] = "none"
    /\ call' = [call EXCEPT ![t] = m]
    /\ g_cmd' = IF m = "start_playing" THEN "start" ELSE "stop"
    /\ UNCHANGED <<cfgVars, radioVars, schedVars, hs, now, g_edge, g_posted, g_fresh,
                   rt, boot, ct, g_off>>

\* the method returned to that caller
RadioReturn(t) ==
    /\ call[t] = "return"
    /\ call' = [call EXCEPT ![t] = "none"]
    /\ UNCHANGED <<cfgVars, radioVars, schedVars, hs, now, g_edge, g_posted, g_fresh,
                   g_cmd, rt, boot, ct, g_off>>

\* ------------------------------------------------------------- startup
\* radio-config.json as main finds it: absent, present but no JSON document,
\* or a document
NoDoc == [alarms |-> <<>>, playing |-> FALSE]
DefaultDoc == [alarms |-> DEFAULT_ALARMS, playing |-> DEFAULT_PLAYING]
FileAbsent == [kind |-> "absent", doc |-> NoDoc]
FileCorrupt == [kind |-> "corrupt", doc |-> NoDoc]
FileDoc(d) == [kind |-> "doc", doc |-> d]
BootFiles ==
    { FileAbsent, FileCorrupt, FileDoc(DefaultDoc), FileDoc(NoDoc),
      FileDoc([alarms |-> <<AlarmTest>>, playing |-> TRUE]),
      FileDoc([alarms |-> Append(DEFAULT_ALARMS, AlarmTest), playing |-> FALSE]) }
BootDone == [st |-> "up", file |-> FileAbsent]

\* main, lines 293-298: PersistentConfig() catches FileNotFoundError alone, so
\* what json.load raises on a file that holds no document ends the program;
\* otherwise the document, or DEFAULT_CONFIG, is saved, and RadioResource()
\* starts the radio if radio/playing is set
Construct ==
    /\ boot.st = "start"
    /\ IF boot.file.kind = "corrupt"
       THEN /\ boot' = [boot EXCEPT !.st = "failed"]
            /\ UNCHANGED <<cfgVars, process>>
       ELSE LET d == IF boot.file.kind = "absent" THEN DefaultDoc ELSE boot.file.doc
            IN /\ alarms' = d.alarms
               /\ playing' = d.playing
               /\ disk' = d
               /\ process' = IF d.playing THEN "running" ELSE "None"
               /\ boot' = [boot EXCEPT !.st = "up"]
    /\ UNCHANGED <<orphans, schedVars, call, hs, now, g_edge, g_posted, g_fresh, g_cmd,
                   rt, ct, g_off>>

\* ------------------------------------------------ check_time on its own
NoCt == [hour |-> 0, min |-> 0, days |-> {}, t |-> Instant(0, 0, 0, 0), res |-> "none"]

\* alarm times, day sets and clock readings of one call
CtHours == {0, 8, 23}
CtMinutes == {0, 25, 49, 55}
CtDays == {{}, {2}, {0, 1}}
CtTimes ==
    { Instant(wd, h, m, sec) : wd \in {1, 2}, h \in {0, 7, 8, 9, 23},
                               m \in {0, 9, 10, 11, 24, 25, 35, 36, 49, 59},
                               sec \in {0, 30} }
CtCalls ==
    { [hour |-> h, min |-> m, days |-> d, t |-> t, res |-> "none"] :
          h \in CtHours, m \in CtMinutes, d \in CtDays, t \in CtTimes }

\* check_time(hour, minutes, days) called at time ct.t, lines 161-176
CheckTimeCall ==
    /\ ct.res = "none"
    /\ ct' = [ct EXCEPT !.res = IF CheckTimeRaises(ct.hour, ct.min) THEN "raise"
                                ELSE IF CheckTime(ct.hour, ct.min, ct.days, ct.t)
                                THEN "true"
                                ELSE "false"]
    /\ UNCHANGED <<cfgVars, radioVars, schedVars, call, hs, now, g_edge, g_posted,
                   g_fresh, g_cmd, rt, boot, g_off>>

\* ------------------------------------------------------- specifications
\* Radio(), RadioResource() and AlarmResource() as constructed
Started ==
    /\ orphans = 0
    /\ last_should_be_playing = FALSE
    /\ thread_should_exit = FALSE
    /\ sched = SchedIdle
    /\ call = [t \in Threads |-> "none"]
    /\ hs = [h \in Handlers |-> IdleHandler]
    /\ now \in Instants
    /\ g_edge = [prev |-> FALSE, cur |-> FALSE, act |-> "none"]
    /\ g_posted = [a \in NewAlarms |-> 0]
    /\ g_fresh = NoFresh
    /\ g_cmd = "none"
    /\ rt = NoRt
    /\ g_off = NoOff

\* after PersistentConfig(), Radio(), RadioResource() and AlarmResource() with
\* no radio-config.json present
Init ==
    /\ boot = BootDone
    /\ ct = NoCt
    /\ alarms = DEFAULT_ALARMS
    /\ playing = DEFAULT_PLAYING
    /\ disk = [alarms |-> DEFAULT_ALARMS, playing |-> DEFAULT_PLAYING]
    /\ process = "None"
    /\ orphans = 0
    /\ last_should_be_playing = FALSE
    /\ thread_should_exit = FALSE
    /\ sched = SchedIdle
    /\ call = [t \in Threads |-> "none"]
    /\ hs = [h \in Handlers |-> IdleHandler]
    /\ now \in Instants
    /\ g_edge = [prev |-> FALSE, cur |-> FALSE, act |-> "none"]
    /\ g_posted = [a \in NewAlarms |-> 0]
    /\ g_fresh = NoFresh
    /\ g_cmd = "none"
    /\ rt = NoRt
    /\ g_off = NoOff

\* indices a request body may carry, around the list's range
Indices == -1 .. Len(alarms)

\* the scheduler thread and the Radio calls of thread t
SchedStep == SchedLoop \/ SchedScan \/ SchedEdge \/ SchedAssign
RadioStep(t) ==
    RadioStartCheck(t) \/ RadioPopen(t) \/ RadioStopCheck(t) \/ RadioTerminate(t)

\* the requests handler thread h serves: on the radio, on the alarms' "on"
\* flags, on the alarm list
ApiRadio(h) ==
    \/ ApiRadioStart(h) \/ ApiRadioStartSet(h)
    \/ ApiRadioStop(h) \/ ApiRadioStopSet(h)
    \/ ApiRadioStatus(h)
ApiTurn(h) == \E i \in Indices, v \in BOOLEAN : ApiAlarmTurn(h, i, v)
ApiNew(h) ==
    \/ \E a \in NewAlarms : ApiAlarmNew(h, a)
    \/ ApiAlarmNewAppend(h) \/ ApiAlarmNewSet(h)
ApiDelete(h) ==
    \/ \E i \in Indices : ApiAlarmDelete(h, i)
    \/ ApiAlarmDeleteDo(h) \/ ApiAlarmDeleteSet(h)
ApiGet(h) == \E i \in Indices : ApiAlarmGet(h, i)

\* the scheduler thread, one handler thread serving radio and turnon/turnoff
\* requests, the clock and the mplayer processes
Next ==
    \/ ClockAdvance
    \/ ProcExit
    \/ Shutdown
    \/ SchedStep
    \/ RadioStep(SchedThread)
    \/ RadioStep(1)
    \/ ApiRespond(1)
    \/ ApiRadio(1)
    \/ ApiTurn(1)

Spec == Init /\ [][Next]_vars

\* the scheduler thread and one handler thread serving requests on the alarm
\* list, at any one time of the day
NextAlarms ==
    \/ ProcExit
    \/ Shutdown
    \/ SchedStep
    \/ RadioStep(SchedThread)
    \/ ApiRespond(1)
    \/ ApiRadioStatus(1)
    \/ ApiNew(1)
    \/ ApiDelete(1)
    \/ ApiGet(1)

SpecAlarms == Init /\ [][NextAlarms]_vars

\* the scheduler thread and two handler threads serving POST 'new' requests
NextAppend ==
    \/ ClockAdvance
    \/ SchedStep
    \/ RadioStep(SchedThread)
    \/ \E h \in Handlers : ApiRespond(h) \/ ApiNew(h)

SpecAppend == Init /\ [][NextAppend]_vars

\* one caller of the store's set and get
NextConfig ==
    \/ \E b \in BOOLEAN : StoreSet(<<"radio", "playing">>, VBool(b))
    \/ \E b \in BOOLEAN : StoreSet(<<"radio">>, VDict([playing |-> VBool(b)]))
    \/ \E l \in StoreLists : StoreSet(<<"alarms">>, VList(l))
    \/ \E k \in {"0", "1"}, b \in BOOLEAN : StoreSet(<<"alarms", k, "on">>, VBool(b))
    \/ StoreGet

SpecConfig == Init /\ [][NextConfig]_vars

\* one caller of the Radio's methods, one handler thread serving status
\* requests, and the mplayer process
NextRadio ==
    \/ \E m \in {"start_playing", "stop_playing"} : RadioCall(2, m)
    \/ RadioStep(2)
    \/ RadioReturn(2)
    \/ ProcExit
    \/ ApiRadioStatus(1)
    \/ ApiRespond(1)

SpecRadio == Init /\ [][NextRadio]_vars

\* the scheduler thread until it is told to exit, one handler thread serving
\* turnon/turnoff requests, and the clock; the scheduler thread keeps running
\* while it can
NextShutdown ==
    \/ ClockAdvance
    \/ Shutdown
    \/ SchedStep
    \/ RadioStep(SchedThread)
    \/ ApiRespond(1)
    \/ ApiTurn(1)

SpecShutdown ==
    Init /\ [][NextShutdown]_vars /\ WF_vars(SchedStep \/ RadioStep(SchedThread))

\* the program from before main's constructors on, with one handler thread
\* serving radio requests
InitBoot ==
    /\ boot \in {[st |-> "start", file |-> f] : f \in BootFiles}
    /\ ct = NoCt
    /\ alarms = <<>>
    /\ playing = FALSE
    /\ disk = boot.file.doc
    /\ process = "None"
    /\ Started

NextBoot ==
    \/ Construct
    \/ /\ boot.st = "up"
       /\ \/ ProcExit
          \/ RadioStep(1)
          \/ ApiRespond(1)
          \/ ApiRadio(1)

SpecBoot == InitBoot /\ [][NextBoot]_vars

\* check_time called once, on any of the inputs
InitTime ==
    /\ boot = BootDone
    /\ ct \in CtCalls
    /\ alarms = DEFAULT_ALARMS
    /\ playing = DEFAULT_PLAYING
    /\ disk = DefaultDoc
    /\ process = "None"
    /\ Started

NextTime == CheckTimeCall

SpecTime == InitTime /\ [][NextTime]_vars

\* ---------------------------------------------------------------- claims
AtRest == \A h \in Handlers : hs[h].pc = "idle"

\* C1: a tick invokes start_playing exactly when the value it computed is
\* true and the previous tick's was false, stop_playing exactly when it is
\* false and the previous one was true, and nothing when the two agree,
\* whatever the radio's process is doing.
C1_EdgeTriggered ==
    /\ (g_edge.act = "start") <=> (g_edge.cur /\ ~g_edge.prev)
    /\ (g_edge.act = "stop") <=> (~g_edge.cur /\ g_edge.prev)

\* C1 witness: a finished tick inside the window that invoked nothing although
\* the radio's process is no longer running
C1_Witness ==
    /\ sched.pc = "loop"
    /\ g_edge = [prev |-> TRUE, cur |-> TRUE, act |-> "none"]
    /\ last_should_be_playing
    /\ ~IsPlaying

\* C2: when the scan matches an alarm with minute + 10 >= 60 and hour <= 22,
\* the time is not past hour+1 : (minute + 10) - 60 (so 07:55 is over at 08:06).
C2_CarryEnd ==
    [][(/\ sched.pc = "scan"
        /\ sched.i < Len(alarms)
        /\ sched'.pc = "edge"
        /\ sched'.rsbp)
       => LET a == alarms[sched.i + 1]
          IN (a.min + WindowMinutes >= MinutesPerHour /\ a.hour \in 0..22)
             => SecondsOfDay(now.h, now.m, now.s)
                   <= SecondsOfDay(a.hour + 1, a.min + WindowMinutes - MinutesPerHour, 0)]_vars

\* C3: at most one mplayer process started by the Radio is running.
C3_OneProcess == LiveProcesses <= 1

\* C4: the scheduler thread ends only after thread_should_exit was set; a bad
\* alarm entry does not end it.
C4_LoopSurvives == sched.pc \in {"crashed", "exited"} => thread_should_exit

\* s is the beginning of l
IsPrefix(s, l) == Len(s) <= Len(l) /\ SubSeq(l, 1, Len(s)) = s
Occurrences(l, a) == Cardinality({k \in 1..Len(l) : l[k] = a})

\* C5: under concurrent POST 'new' requests and scheduler ticks, once no
\* request is under way the list holds the initial alarms and each alarm as
\* often as it was appended with success, and what a tick has read so far is
\* the beginning of the list.
C5_NoLostAppend ==
    /\ NewUnderWay = 0 =>
          /\ Len(alarms) = Len(DEFAULT_ALARMS) + SumPosted(NewAlarms)
          /\ IsPrefix(DEFAULT_ALARMS, alarms)
          /\ \A a \in NewAlarms : Occurrences(alarms, a) = g_posted[a]
    /\ IsPrefix(sched.seen, alarms)

\* C5 witness: both requests were under way at once while the scheduler was
\* in the middle of a scan, and both were answered 201
C5_Witness ==
    /\ hs[1].pc = "respond" /\ hs[1].resp.code = 201
    /\ hs[2].pc = "respond" /\ hs[2].resp.code = 201
    /\ hs[1].a # hs[2].a
    /\ sched.pc = "scan" /\ Len(sched.seen) = 1
    /\ Len(alarms) = Len(DEFAULT_ALARMS) + 2

\* C6: with no request in progress the file holds the document in memory.
C6_DiskEqualsMemory == AtRest => disk = [alarms |-> alarms, playing |-> playing]

\* C7: once a tick begun after the append of an enabled alarm whose window is
\* open has finished, with the alarm still listed, the window still open and
\* the radio neither stopped nor its process gone since the append, the radio
\* is playing (and a status request answers "started").
C7_FreshAlarmPlays ==
    (/\ g_fresh.st = "due"
     /\ \E k \in 1..Len(alarms) : alarms[k] = g_fresh.a
     /\ CheckTime(g_fresh.a.hour, g_fresh.a.min, g_fresh.a.days, now))
    => IsPlaying

\* C8: at rest radio/playing is true if the last playback command, of a
\* request or of a scheduler edge, was a start and false if it was a stop.
C8_IntentFlag ==
    (AtRest /\ call[SchedThread] = "none")
    => /\ g_cmd = "start" => playing
       /\ g_cmd = "stop" => ~playing

\* the index a path part names, -1 when it names none
PartIndex(part) == CASE part = "0" -> 0 [] part = "1" -> 1 [] OTHER -> -1
AlarmKeys == {"name", "days", "on", "hour", "min"}

\* the parts address a location of the document, by keys and list indices
LocationExists(parts) ==
    \/ parts \in {<<"alarms">>, <<"radio">>, <<"radio", "playing">>}
    \/ /\ Len(parts) \in {2, 3}
       /\ parts[1] = "alarms"
       /\ PartIndex(parts[2]) \in 0..(Len(alarms) - 1)
       /\ Len(parts) = 3 => parts[3] \in AlarmKeys

\* C9: get(p) right after set(p, v) returns v, for every p that addresses an
\* existing location by keys and list indices.
C9_RoundTrip ==
    (rt.op = "get" /\ LocationExists(rt.parts))
    => /\ rt.exc = NoExc
       /\ rt.got.kind = rt.value.kind
       /\ rt.got = rt.value

\* C10: del with an index i in 0..n-1 leaves n-1 alarms, those before i where
\* they were and those after i one place earlier, and the set that follows
\* leaves the list as it is.
C10_DeleteByIndex ==
    [][\A h \in Handlers :
          /\ (/\ hs[h].pc = "del_do"
              /\ hs'[h].pc = "del_set"
              /\ hs[h].idx \in 0..(Len(alarms) - 1))
             => /\ Len(alarms') = Len(alarms) - 1
                /\ \A j \in 0..(Len(alarms') - 1) :
                      PyItem(alarms', j) = IF j < hs[h].idx THEN PyItem(alarms, j)
                                           ELSE PyItem(alarms, j + 1)
          /\ (hs[h].pc = "del_set" /\ hs'[h].pc = "respond") => alarms' = alarms]_vars

\* C10 witness: index 1 of three alarms was deleted, one alarm remains on
\* either side
C10_Witness ==
    /\ hs[1].pc = "del_set"
    /\ hs[1].idx = 1
    /\ Len(alarms) = 2
    /\ alarms[1] = DEFAULT_ALARMS[1]
    /\ alarms[2] \in NewAlarms

\* C11: with one caller of the Radio, a start_playing called while the process
\* it started is alive returns without launching anything and leaves that one
\* process the only one; a stop_playing called while no process is alive
\* returns without changing anything
C11_Idempotent ==
    /\ [](orphans = 0 /\ LiveProcesses <= 1)
    /\ [][\A t \in Threads :
            /\ (call[t] = "start_playing" /\ call'[t] # call[t] /\ process = "running")
                   => (call'[t] = "return" /\ UNCHANGED radioVars)
            /\ (call[t] = "stop_playing" /\ call'[t] # call[t] /\ process # "running")
                   => (call'[t] = "return" /\ UNCHANGED radioVars)]_vars

\* start_playing is called again while the process an earlier call launched is
\* alive
C11_Witness ==
    /\ call[2] = "start_playing"
    /\ g_cmd = "start"
    /\ process = "running"
    /\ LiveProcesses = 1

\* C12: once the process has exited, a status request is answered "stopped",
\* a start_playing goes on to launch a process, and once it has, the process is
\* running and a status request is answered "started"
C12_LiveFromProcess ==
    [][/\ (hs[1].pc = "idle" /\ hs'[1].pc = "respond" /\ hs'[1].op = "status")
            => (hs'[1].resp.body = "started" <=> process = "running")
       /\ \A t \in Threads :
            /\ (call[t] = "start_playing" /\ call'[t] # call[t] /\ process = "exited")
                   => call'[t] = "popen"
            /\ (call[t] = "popen" /\ call'[t] # call[t])
                   => (process' = "running" /\ call'[t] = "return")]_vars

\* the process exited by itself after a start_playing, a status request was
\* answered "stopped", and the next start_playing is about to launch a process
C12_Witness ==
    /\ process = "exited"
    /\ call[2] = "popen"
    /\ hs[1].pc = "respond"
    /\ hs[1].resp.body = "stopped"

\* an alarm of a POST 'new' body that lacks a field or has no day
NewAlarmInvalid(a) ==
    \/ {"name", "on", "days", "hour", "min"} \ DOMAIN a # {}
    \/ a.days = {}

\* C13: a POST 'new' whose alarm lacks a field or has an empty days list is
\* answered with status 400, and the alarm list in memory and on disk stays
\* as it was
C13_NewRejected ==
    [][\A h \in Handlers :
          (/\ hs[h].pc = "idle"
           /\ hs'[h].pc # "idle"
           /\ hs'[h].op = "new"
           /\ NewAlarmInvalid(hs'[h].a))
             => (/\ hs'[h].pc = "respond"
                 /\ hs'[h].resp.code = 400
                 /\ alarms' = alarms
                 /\ disk' = disk)]_vars

\* index i is outside 0 .. len(l) - 1
OutOfRange(l, i) == i < 0 \/ i >= Len(l)

\* C14: a GET of one alarm, or a DELETE, whose index is outside
\* 0 .. len(alarms) - 1 is answered with status 404 and leaves the alarm list
\* as it was
C14_IndexRejected ==
    [][\A h \in Handlers :
          /\ (/\ hs[h].pc = "idle"
              /\ hs'[h].pc # "idle"
              /\ hs'[h].op = "get"
              /\ OutOfRange(alarms, hs'[h].idx))
                => (hs'[h].resp.code = 404 /\ alarms' = alarms)
          /\ (/\ hs[h].pc = "del_do"
              /\ hs'[h].pc # "del_do"
              /\ OutOfRange(alarms, hs[h].idx))
                => (/\ hs'[h].pc = "respond"
                    /\ hs'[h].resp.code = 404
                    /\ alarms' = alarms
                    /\ disk' = disk)]_vars

\* C15: the loop tests thread_should_exit at the top of each tick and nowhere
\* else: once the flag is set no tick begins, the tick under way is the last,
\* the thread then ends, and once it has ended it calls neither start_playing
\* nor stop_playing
C15_Shutdown ==
    /\ [][(thread_should_exit /\ sched.pc = "loop" /\ sched' # sched)
             => sched'.pc = "exited"]_vars
    /\ [][sched.pc = "exited"
             => (/\ sched'.pc = "exited"
                 /\ call'[SchedThread] = "none"
                 /\ g_edge' = g_edge)]_vars
    /\ (thread_should_exit ~> sched.pc = "exited")

\* the thread has ended after a tick of it had started the radio
C15_Witness ==
    /\ sched.pc = "exited"
    /\ thread_should_exit
    /\ g_edge.act = "start"
    /\ process = "running"

\* C16: constructing the store succeeds whether radio-config.json is absent,
\* unreadable or a document: in the first two cases the document in memory is
\* the built-in default and it is written to disk, in the third the document
\* in memory is the one read
C16_Construction ==
    [][(boot.st = "start" /\ boot'.st # "start")
          => /\ boot'.st = "up"
             /\ IF boot.file.kind = "doc"
                THEN [alarms |-> alarms', playing |-> playing'] = boot.file.doc
                ELSE /\ alarms' = DEFAULT_ALARMS
                     /\ playing' = DEFAULT_PLAYING
                     /\ disk' = [alarms |-> DEFAULT_ALARMS, playing |-> DEFAULT_PLAYING]]_vars

\* time t's weekday is in days and its time of day lies between hour:minute
\* and hour:(minute + 10), both ends included
InWindow(hour, minute, days, t) ==
    /\ t.wd \in days
    /\ t.h = hour
    /\ t.m >= minute
    /\ t.m < minute + 10 \/ (t.m = minute + 10 /\ t.s = 0)

\* C17: for an alarm with hour in 0..23 and minute in 0..49, check_time
\* returns true exactly when the weekday is in the alarm's days and the time
\* of day lies in hour:minute .. hour:(minute + 10), both ends included, and
\* false otherwise
C17_Window ==
    (ct.res # "none" /\ ct.hour \in 0..23 /\ ct.min \in 0..49)
       => ct.res = IF InWindow(ct.hour, ct.min, ct.days, ct.t) THEN "true" ELSE "false"

\* check_time returned true at the last instant of a window
C17_Witness ==
    /\ ct.res = "true"
    /\ ct.min \in 0..49
    /\ ct.t.h = ct.hour
    /\ ct.t.m = ct.min + 10
    /\ ct.t.s = 0

\* C18: every tick's scan ends with a value, and the value is "some alarm of
\* the list is on and its window is open now", whatever the alarms' order
C18_ScanValue ==
    [][(sched.pc = "scan" /\ sched'.pc # "scan")
          => (sched'.pc = "edge" /\ sched'.rsbp = EnabledMatch(alarms, now))]_vars

\* C19: at the moment a stop_playing call returns with no start_playing call in
\* progress, no mplayer process that the Radio launched is running
C19_NoLostStop ==
    [][\A t \in Threads :
          (/\ call[t] \in {"stop_playing", "terminate"}
           /\ call'[t] = "return"
           /\ \A u \in Threads : call'[u] \notin {"start_playing", "popen"})
             => LiveProcesses' = 0]_vars

\* C20: once the scheduler has started the radio and the last enabled alarm
\* whose window is open is turned off or deleted, the first tick begun after
\* that invokes stop_playing (unless the tick under way already has), and no
\* later tick invokes start_playing while the alarms and the clock stay as
\* they are
C20_DisabledStops ==
    /\ g_off.st = "ended" => g_off.act = "stop"
    /\ g_off.st # "restarted"

====
